---- MODULE Spec2Model ----
(***************************************************************************)
(* hdb: a hash database kept in three files (src/hdb.h).                   *)
(*                                                                         *)
(* Representation.  The hash file is a sequence of 16-bit limbs, least     *)
(* significant limb first (the code runs on a little-endian LP64 build):   *)
(* a uint32_t is two limbs, a uint64_t / size_t four limbs.  Every access  *)
(* of the code to the hash file is at a multiple of four bytes, so a limb  *)
(* offset o stands for the byte offset 2*o.  The data file is its length   *)
(* (a uint64_t), its first MaxData bytes and the stream position of its   *)
(* FILE handle; the bytes past MaxData are the zeros of a hole, because    *)
(* the model follows ftruncate to any length but no write past MaxData.   *)
(* The free list (deleted_blocks_array) is a sequence of ints, two limbs   *)
(* each.  Seeks and truncations succeed for every offset an off_t can      *)
(* hold, that is, for every non-negative one.                              *)
(***************************************************************************)
EXTENDS Integers, Sequences, FiniteSets, TLC

\* ------------------------------------------------------------------ bounds
\* number of API calls followed in one behaviour
MaxOps == 5
\* the bytes of the data file the model keeps: no write goes past them
MaxData == 6
\* number of API calls followed next to the daemon thread
MaxCalls == 3
\* length of the keys hash_function is applied to
MaxKeyLen == 3

\* ------------------------------------------------- constants of the program
\* number of directory slots: the literal 128 of "hash % 128" and of the scan
NSlots == 128
\* one limb is 16 bits
LimbBase == 65536
\* a byte is 8 bits
ByteBase == 256

\* ------------------------------------------------------ fixed-width integers
Zero32 == <<0, 0>>
Zero64 == <<0, 0, 0, 0>>

\* n < 2^31 as a uint64_t
U64(n) == <<n % LimbBase, n \div LimbBase, 0, 0>>
\* n < 2^31 as a uint32_t
U32(n) == <<n % LimbBase, n \div LimbBase>>

\* the value fits a non-negative 32-bit int
Fits(a) == a[3] = 0 /\ a[4] = 0 /\ a[2] < 32768
ToNat(a) == a[1] + LimbBase * a[2]

\* the sign bit of a 64-bit value read as off_t / long
Neg64(a) == a[4] >= 32768

RECURSIVE GtFrom(_, _, _)
GtFrom(a, b, i) ==
    IF i = 0 THEN FALSE
    ELSE IF a[i] # b[i] THEN a[i] > b[i]
    ELSE GtFrom(a, b, i - 1)

\* unsigned a > b
Gt64(a, b) == GtFrom(a, b, 4)

RECURSIVE SubFrom(_, _, _, _)
SubFrom(a, b, i, borrow) ==
    IF i > Len(a) THEN <<>>
    ELSE LET d == a[i] - b[i] - borrow
         IN  <<d % LimbBase>> \o SubFrom(a, b, i + 1, IF d < 0 THEN 1 ELSE 0)

\* a - b modulo 2^64
Sub64(a, b) == SubFrom(a, b, 1, 0)

RECURSIVE AddFrom(_, _, _, _)
AddFrom(a, b, i, carry) ==
    IF i > Len(a) THEN <<>>
    ELSE LET s == a[i] + b[i] + carry
         IN  <<s % LimbBase>> \o AddFrom(a, b, i + 1, s \div LimbBase)

\* a + b modulo 2^64
Add64(a, b) == AddFrom(a, b, 1, 0)

\* (int) of a uint64_t: the low 32 bits
ToInt(a) == <<a[1], a[2]>>
\* an int converted to uint64_t: sign extension
FromInt(i) == IF i[2] >= 32768 THEN <<i[1], i[2], LimbBase - 1, LimbBase - 1>>
              ELSE <<i[1], i[2], 0, 0>>

RECURSIVE XorBits(_, _, _)
XorBits(a, b, n) ==
    IF n = 0 THEN 0
    ELSE (((a % 2) + (b % 2)) % 2) + 2 * XorBits(a \div 2, b \div 2, n - 1)

Xor32(a, b) == <<XorBits(a[1], b[1], 16), XorBits(a[2], b[2], 16)>>

\* x * p for one limb x and p < 2^16, as a 32-bit value
MulLimb(x, p) ==
    LET p0 == p % ByteBase
        p1 == p \div ByteBase
        A  == x * p0
        B  == x * p1
        lo == A + (B % ByteBase) * ByteBase
    IN  <<lo % LimbBase, (lo \div LimbBase + B \div ByteBase) % LimbBase>>

\* h * p modulo 2^32, p < 2^16
Mul32(h, p) ==
    LET L == MulLimb(h[1], p)
        H == MulLimb(h[2], p)
    IN  <<L[1], (L[2] + H[1]) % LimbBase>>

\* hash % 128
Mod128(h) == h[1] % NSlots

\* ------------------------------------------------------------ hash_function
RECURSIVE HashLoop(_, _, _, _)
HashLoop(data, i, hash, prime) ==
    IF i > Len(data) THEN hash
    ELSE HashLoop(data, i + 1,
                  Xor32(Mul32(hash, prime), U32(data[i] * 37)),
                  (prime * 37) % 65521)

hash_function(data) == HashLoop(data, 1, Zero32, 31)

\* ----------------------------------------------------------------- inputs
\* the keys the callers use: "" (hash 0, bucket 0), "-" (hash 1665,
\* bucket 1), "Z" (hash 3330, bucket 2)
Keys == {<<>>, <<45>>, <<90>>}
\* the values the callers store: "", "a"
Values == {<<>>, <<97>>}
\* the byte the caller's buffer holds before db_get fills it: '#'
BufFill == 35
\* an object that was never assigned reads as the bytes the build left in
\* it: zeros (-ftrivial-auto-var-init=zero), gcc's 0xFE pattern
\* (-ftrivial-auto-var-init=pattern), or, in the default build (stale), what
\* the last iteration of a loop left in the stack slot of a loop local
Builds == {[fill |-> 0, stale |-> FALSE],
           [fill |-> 65278, stale |-> FALSE],
           [fill |-> 0, stale |-> TRUE]}

Junk32(b) == <<b.fill, b.fill>>
Junk64(b) == <<b.fill, b.fill, b.fill, b.fill>>

Min(a, b) == IF a < b THEN a ELSE b

\* ------------------------------------------------------------- stdio files
Zeros(n) == [i \in 1 .. n |-> 0]

\* fread of n units at offset off into an object holding old: the units the
\* file has are copied, the rest of the object is left as it was; pos is the
\* stream position afterwards
ReadAt(f, off, n, old) ==
    LET avail == IF off >= Len(f) THEN 0 ELSE Min(n, Len(f) - off)
    IN  [val |-> SubSeq(f, off + 1, off + avail) \o SubSeq(old, avail + 1, n),
         got |-> avail,
         pos |-> off + avail]

\* fwrite of units at offset off: a gap past the end reads as zeros
WriteAt(f, off, units) ==
    IF Len(units) = 0 THEN f
    ELSE LET g == IF off > Len(f) THEN f \o Zeros(off - Len(f)) ELSE f
         IN  SubSeq(g, 1, off) \o units
                 \o SubSeq(g, off + Len(units) + 1, Len(g))

\* ftruncate to n units
TruncateTo(f, n) ==
    IF n <= Len(f) THEN SubSeq(f, 1, n) ELSE f \o Zeros(n - Len(f))

\* the bytes kept of a data file that is n bytes long
Kept(n) == IF Fits(n) THEN Min(ToNat(n), MaxData) ELSE MaxData

\* the byte of the data file at offset o
ByteAt(st, o) ==
    IF Fits(o) /\ ToNat(o) < Len(st.d) THEN st.d[ToNat(o) + 1] ELSE 0

\* limb offset of the hash field of slot s: hash % 128 * sizeof(uint32_t)
HashOff(s) == 2 * s
\* limb offset of position and length of slot s:
\* hash % 128 * sizeof(uint64_t) * 2
EntryOff(s) == 8 * s

\* ------------------------------------------------------------------ db_get
\* st = [h: hash file, d: kept bytes of the data file, n: its length,
\*       p: data stream position, a: free list]
\* val is the start of the caller's buffer afterwards; follow tells whether
\* the read loop ends within 2^32 bytes
db_get(st, key, b, buf) ==
    LET hash     == hash_function(key)
        s        == Mod128(hash)
        stored   == ReadAt(st.h, HashOff(s), 2, Junk32(b)).val
        rp       == ReadAt(st.h, EntryOff(s), 4, Junk64(b))
        rl       == ReadAt(st.h, rp.pos, 4, Junk64(b))
        position == rp.val
        length   == rl.val
        \* fseek(data_file, position, SEEK_SET) fails on a negative offset
        start    == IF Neg64(position) THEN st.p ELSE position
        left     == IF Gt64(st.n, start) THEN Sub64(st.n, start) ELSE Zero64
        nread    == IF Gt64(length, left) THEN left ELSE length
        shown    == IF Fits(length) THEN Min(ToNat(length), MaxData + 1)
                    ELSE MaxData + 1
    IN  IF stored # hash
        THEN [ret |-> -1, len |-> Zero64, val |-> <<>>, st |-> st,
              follow |-> TRUE]
        ELSE [ret |-> 0,
              len |-> length,
              val |-> [i \in 1 .. shown |->
                          IF Gt64(U64(i), nread) THEN buf
                          ELSE ByteAt(st, Add64(start, U64(i - 1)))],
              st  |-> [st EXCEPT !.p = Add64(start, nread)],
              follow |-> length[3] = 0 /\ length[4] = 0]

\* --------------------------------------------------------------- db_delete
\* one iteration of the for loop that ends db_delete (the directory rewrite).
\* w = [f: hash file, cur: stream position in limbs, th, tp, tl: what the
\* stack slots of temp_hash, temp_position and temp_length hold]
RewriteStep(w, position, length, b) ==
    LET th0 == IF b.stale THEN w.th ELSE Junk32(b)
        tp0 == IF b.stale THEN w.tp ELSE Junk64(b)
        tl0 == IF b.stale THEN w.tl ELSE Junk64(b)
        rh  == ReadAt(w.f, w.cur, 2, th0)
        rp  == ReadAt(w.f, rh.pos, 4, tp0)
        rl  == ReadAt(w.f, rp.pos, 4, tl0)
        np  == Sub64(rp.val, length)
        \* fseek(-2 * sizeof(uint64_t), SEEK_CUR) fails before the start
        back == IF rl.pos >= 8 THEN rl.pos - 8 ELSE rl.pos
    IN  IF rh.val = Zero32
        THEN [f |-> w.f, cur |-> rh.pos, th |-> rh.val, tp |-> tp0, tl |-> tl0]
        ELSE IF Gt64(rp.val, position)
        THEN [f |-> WriteAt(w.f, back, np), cur |-> back + 8,
              th |-> rh.val, tp |-> np, tl |-> rl.val]
        ELSE [f |-> w.f, cur |-> rl.pos,
              th |-> rh.val, tp |-> rp.val, tl |-> rl.val]

\* n consecutive iterations of the loop, computed in two halves.  When the
\* first half of an even n leaves the file, the stream position and the three
\* locals as they were, the second half, which starts from the same values,
\* leaves them so too and is not computed again.
RECURSIVE RewriteLoop(_, _, _, _, _)
RewriteLoop(w, n, position, length, b) ==
    IF n = 0 THEN w
    ELSE IF n = 1 THEN RewriteStep(w, position, length, b)
    ELSE LET half == RewriteLoop(w, n \div 2, position, length, b)
         IN  IF half = w /\ n % 2 = 0 THEN w
             ELSE RewriteLoop(half, n - n \div 2, position, length, b)

\* the whole loop: for (int i = 0; i < 128; ++i)
Rewrite(f, position, length, b) ==
    RewriteLoop([f |-> f, cur |-> 0, th |-> Junk32(b), tp |-> Junk64(b),
                 tl |-> Junk64(b)], NSlots, position, length, b).f

\* a free list whose entries are 16 bits wide
PushedShort(array, position) == Append(array, <<position[1], 0>>)

\* deleted_blocks_array[deleted_blocks_array_size++] = position
Pushed(array, position) == Append(array, ToInt(position))

\* st is the state the call leaves; follow tells whether the seek to
\* position + length succeeds (when it fails the call goes on to copy
\* remaining_size bytes through a buffer malloc could not give)
db_delete(st, key, b) ==
    LET hash     == hash_function(key)
        s        == Mod128(hash)
        stored   == ReadAt(st.h, HashOff(s), 2, Junk32(b)).val
        h1       == WriteAt(st.h, HashOff(s), Zero32)
        rp       == ReadAt(h1, EntryOff(s), 4, Junk64(b))
        rl       == ReadAt(h1, rp.pos, 4, Junk64(b))
        position == rp.val
        length   == rl.val
        \* fseek(position + length); ftell gives that offset back, so
        \* remaining_size is 0 and nothing is read or written
        target   == Add64(position, length)
        \* fseek(position) and ftruncate(position) fail on a negative value
        p1       == IF Neg64(position) THEN target ELSE position
        n1       == IF Neg64(position) THEN st.n ELSE position
    IN  IF stored # hash
        THEN [ret |-> -1, st |-> st, follow |-> TRUE]
        ELSE [ret |-> 0,
              st  |-> [h |-> Rewrite(h1, position, length, b),
                       d |-> TruncateTo(st.d, Kept(n1)),
                       n |-> n1,
                       p |-> p1,
                       a |-> Pushed(st.a, position)],
              follow |-> ~Neg64(target)]

\* ------------------------------------------------------------------ db_put
\* the rest of db_put once the old value is gone: del is what the inner
\* db_delete left (or the state as it was when the slot holds another hash).
\* follow tells whether the value is written inside the kept bytes
PutValue(del, hash, value) ==
    LET s        == Mod128(hash)
        s1       == del.st
        h2       == WriteAt(s1.h, HashOff(s), hash)
        reuse    == Len(s1.a) > 0
        position == IF reuse THEN FromInt(s1.a[Len(s1.a)]) ELSE s1.n
        a2       == IF reuse THEN SubSeq(s1.a, 1, Len(s1.a) - 1) ELSE s1.a
        \* only the else branch seeks: the value goes to the stream position
        at       == IF reuse THEN s1.p ELSE s1.n
        end      == Add64(at, U64(Len(value)))
        inRange  == Fits(at) /\ ToNat(at) + Len(value) <= MaxData
        written  == inRange /\ Len(value) > 0
        h3       == WriteAt(h2, EntryOff(s), position \o U64(Len(value)))
    IN  [ret |-> 0,
         st  |-> [h |-> h3,
                  d |-> IF written THEN WriteAt(s1.d, ToNat(at), value)
                        ELSE s1.d,
                  n |-> IF written /\ Gt64(end, s1.n) THEN end ELSE s1.n,
                  p |-> end,
                  a |-> a2],
         follow |-> del.follow /\ (inRange \/ Len(value) = 0)]

\* if (stored_hash == hash) db_delete(db, key, key_length);
DeleteOld(st, key, hash, b) ==
    IF ReadAt(st.h, HashOff(Mod128(hash)), 2, Junk32(b)).val = hash
    THEN db_delete(st, key, b)
    ELSE [ret |-> -1, st |-> st, follow |-> TRUE]

PutHashed(st, key, hash, value, b) ==
    PutValue(DeleteOld(st, key, hash, b), hash, value)

db_put(st, key, value, b) ==
    PutHashed(st, key, hash_function(key), value, b)

\* encode_deleted_blocks_array: the list is written over the start of the
\* file, which is not truncated
encode_deleted_blocks_array(file, array) == WriteAt(file, 0, array)

\* decode_deleted_blocks_array: every int the file holds
decode_deleted_blocks_array(file) == file

\* ------------------------------------------------------------------- state
VARIABLES
    hashf,      \* content of the hash file, in limbs
    dataf,      \* the kept bytes of the data file
    dlen,       \* length of the data file (uint64)
    dpos,       \* stream position of db->data_file (uint64)
    delf,       \* content of the deleted-blocks file, in ints
    dba,        \* db->deleted_blocks_array[0 .. deleted_blocks_array_size)
    isOpen,     \* a struct hdb is open on the three files
    build,      \* what the build leaves in unassigned objects
    nops,       \* calls made so far
    last,       \* the last call: [op, key, val, ret]
    live,       \* history: keys put and not deleted with success since
    kv,         \* history: the value of the last db_put of each key
    everPut,    \* history: the keys db_put was called with
    atClose,    \* history: what db_get gave for each key at the last db_close
    fpc,        \* where the calling thread is inside a call ("idle": between calls)
    pend,       \* what the call in progress will leave when it returns
    dpc,        \* where the thread running fsync_background is ("none": no thread)
    stop,       \* db->stop_fsync_thread
    mutex       \* the holder of db->fsync_mutex

\* the threads of one struct hdb
tvars == <<fpc, pend, dpc, stop, mutex>>

vars == <<hashf, dataf, dlen, dpos, delf, dba, isOpen, build, nops, last,
          live, kv, everPut, atClose, fpc, pend, dpc, stop, mutex>>

\* the part of the state the three operations work on
Cur == [h |-> hashf, d |-> dataf, n |-> dlen, p |-> dpos, a |-> dba]

\* what db_get hands to its caller: return value, *value_length and the
\* start of the caller's buffer
Outcome(st, key, b) ==
    LET g == db_get(st, key, b, BufFill)
    IN  [ret |-> g.ret, len |-> g.len, val |-> g.val]

GetAll(st, b) == [k \in Keys |-> Outcome(st, k, b)]

NoKey == <<>>
NoVal == <<>>
\* no call is in progress
NoCall == <<>>

\* db_open on three files that do not exist yet
Init ==
    /\ hashf = <<>>
    /\ dataf = <<>>
    /\ dlen = Zero64
    /\ dpos = Zero64
    /\ delf = <<>>
    /\ dba = <<>>
    /\ isOpen = TRUE
    /\ build \in Builds
    /\ nops = 0
    /\ last = [op |-> "open", key |-> NoKey, val |-> NoVal, ret |-> 0]
    /\ live = {}
    /\ kv = [k \in Keys |-> NoVal]
    /\ everPut = {}
    /\ atClose = [k \in Keys |-> [ret |-> -1, len |-> Zero64, val |-> <<>>]]
    /\ fpc = "idle"
    /\ pend = NoCall
    /\ dpc = "none"
    /\ stop = FALSE
    /\ mutex = "free"

Put(k, v) ==
    /\ isOpen
    /\ nops < MaxOps
    /\ \E r \in {db_put(Cur, k, v, build)} :
        /\ r.follow
        /\ hashf' = r.st.h
        /\ dataf' = r.st.d
        /\ dlen' = r.st.n
        /\ dpos' = r.st.p
        /\ dba' = r.st.a
        /\ nops' = nops + 1
        /\ last' = [op |-> "put", key |-> k, val |-> v, ret |-> r.ret]
        /\ live' = live \cup {k}
        /\ kv' = [kv EXCEPT ![k] = v]
        /\ everPut' = everPut \cup {k}
        /\ UNCHANGED <<delf, isOpen, build, atClose, tvars>>

Get(k) ==
    /\ isOpen
    /\ nops < MaxOps
    /\ \E r \in {db_get(Cur, k, build, BufFill)} :
        /\ r.follow
        /\ dpos' = r.st.p
        /\ nops' = nops + 1
        /\ last' = [op |-> "get", key |-> k, val |-> r.val, ret |-> r.ret]
        /\ UNCHANGED <<hashf, dataf, dlen, delf, dba, isOpen, build, live, kv,
                       everPut, atClose, tvars>>

Delete(k) ==
    /\ isOpen
    /\ nops < MaxOps
    /\ \E r \in {db_delete(Cur, k, build)} :
        /\ r.follow
        /\ hashf' = r.st.h
        /\ dataf' = r.st.d
        /\ dlen' = r.st.n
        /\ dpos' = r.st.p
        /\ dba' = r.st.a
        /\ nops' = nops + 1
        /\ last' = [op |-> "delete", key |-> k, val |-> NoVal, ret |-> r.ret]
        /\ live' = IF r.ret = 0 THEN live \ {k} ELSE live
        /\ UNCHANGED <<delf, isOpen, build, kv, everPut, atClose, tvars>>

\* db_close once the daemon is joined: the free list is written out, the handles
\* are closed and the struct is freed
Close ==
    /\ isOpen
    /\ nops < MaxOps
    /\ delf' = encode_deleted_blocks_array(delf, dba)
    /\ dba' = <<>>
    /\ dpos' = Zero64
    /\ isOpen' = FALSE
    /\ nops' = nops + 1
    /\ last' = [op |-> "close", key |-> NoKey, val |-> NoVal, ret |-> 0]
    /\ atClose' = GetAll(Cur, build)
    /\ UNCHANGED <<hashf, dataf, dlen, build, live, kv, everPut, tvars>>

\* db_open on the same three paths: "rb+" keeps the files, the streams
\* start at offset 0 and the free list is read back
Open ==
    /\ ~isOpen
    /\ nops < MaxOps
    /\ dba' = decode_deleted_blocks_array(delf)
    /\ dpos' = Zero64
    /\ isOpen' = TRUE
    /\ nops' = nops + 1
    /\ last' = [op |-> "open", key |-> NoKey, val |-> NoVal, ret |-> 0]
    /\ UNCHANGED <<hashf, dataf, dlen, delf, build, live, kv, everPut, atClose,
                 tvars>>

Next ==
    \/ \E k \in Keys, v \in Values : Put(k, v)
    \/ \E k \in Keys : Get(k)
    \/ \E k \in Keys : Delete(k)
    \/ Close
    \/ Open

Spec == Init /\ [][Next]_vars

\* ------------------------------------------------- what the claims speak of
\* the hash db_get finds stored for the key, and the entry it reads
StoredHash(st, key, b) ==
    ReadAt(st.h, HashOff(Mod128(hash_function(key))), 2, Junk32(b)).val
SlotOffset(st, key, b) ==
    ReadAt(st.h, EntryOff(Mod128(hash_function(key))), 4, Junk64(b)).val
SlotLength(st, key, b) ==
    ReadAt(st.h, EntryOff(Mod128(hash_function(key))) + 4, 4, Junk64(b)).val
\* the directory holds a live entry for the key: a non-zero stored hash, the
\* key's own
Present(st, key, b) ==
    /\ StoredHash(st, key, b) = hash_function(key)
    /\ StoredHash(st, key, b) # Zero32

\* a key whose hash is not 0, the mark of an empty slot
Plain(key) == hash_function(key) # Zero32

\* db_get gives the value v
Found(v) == [ret |-> 0, len |-> U64(Len(v)), val |-> v]

\* the data file holds the bytes of v from offset at on
HoldsAt(st, at, v) ==
    /\ ~Gt64(Add64(at, U64(Len(v))), st.n)
    /\ ~Neg64(at)
    /\ \A i \in 1 .. Len(v) : ByteAt(st, Add64(at, U64(i - 1))) = v[i]

\* C1: put(k, v) returns success and a get(k) that follows it at once
\* returns success with length |v| and the bytes of v (stated for the keys
\* whose hash is not 0).
C1_PutThenGet ==
    (last.op = "put" /\ Plain(last.key)) =>
        /\ last.ret = 0
        /\ Outcome(Cur, last.key, build) = Found(last.val)

\* C2: after put(k, v) a delete(k) returns success, and a key that was put,
\* then deleted with success and not put since is NotFound for get.
C2_DeleteThenGet ==
    /\ last.op = "put" => db_delete(Cur, last.key, build).ret = 0
    /\ \A k \in everPut \ live : Outcome(Cur, k, build).ret = -1

\* C3: started on fresh files, after puts and deletes of other keys, get of
\* a key such that no key of its hash was ever put returns NotFound.
C3_NeverPutNotFound ==
    last.op \in {"put", "delete"} =>
        \A k \in Keys :
            (\A j \in everPut : hash_function(j) # hash_function(k))
                => Outcome(Cur, k, build).ret = -1

\* C4: a put over a key that is present, with a value no longer than the
\* one it holds, leaves the data file no longer than it was and the free
\* list as long as it was (stated for the keys whose hash is not 0).
C4_OverwriteStep ==
    (/\ last'.op = "put"
     /\ nops' = nops + 1
     /\ last'.key \in live
     /\ Present(Cur, last'.key, build)
     /\ Len(last'.val) <= Len(kv[last'.key]))
        => /\ ~Gt64(dlen', dlen)
           /\ Len(dba') = Len(dba)
\* C4: no overwrite of a present key with a value no longer than the old
\* one makes the data file longer or changes the size of the free list.
C4_OverwriteNoGrowth == [][C4_OverwriteStep]_vars

\* C5: after close and open on the same files, get gives for every key what
\* it gave just before the close.
C5_ReopenSameGets ==
    (last.op = "open" /\ nops > 0) => GetAll(Cur, build) = atClose

\* C6: a successful delete(k) of a key that was put and not deleted since
\* (one whose hash is not 0)
\* leaves every other live entry with its hash
\* and its length, lowers its offset by the removed length when that offset
\* was above the removed one and keeps it otherwise, and get gives for its
\* key what it gave before.
C6_DeleteStep ==
    (/\ last'.op = "delete" /\ nops' = nops + 1 /\ last'.ret = 0
     /\ last'.key \in live
     /\ Plain(last'.key)) =>
        \A k \in live \ {last'.key} :
            Present(Cur, k, build) =>
                /\ Present(Cur', k, build)
                /\ SlotLength(Cur', k, build) = SlotLength(Cur, k, build)
                /\ SlotOffset(Cur', k, build) =
                       IF Gt64(SlotOffset(Cur, k, build),
                               SlotOffset(Cur, last'.key, build))
                       THEN Sub64(SlotOffset(Cur, k, build),
                                  SlotLength(Cur, last'.key, build))
                       ELSE SlotOffset(Cur, k, build)
                /\ Outcome(Cur', k, build).ret = Outcome(Cur, k, build).ret
                /\ Outcome(Cur', k, build).len = Outcome(Cur, k, build).len
                /\ Outcome(Cur', k, build).val = Outcome(Cur, k, build).val
\* C6: no successful delete changes the entry of another live key, other
\* than lowering an offset above the removed one by the removed length, or
\* what get gives for that key.
C6_DeleteKeepsOthers == [][C6_DeleteStep]_vars

\* offset + length of the entry of k does not wrap around and is no more
\* than the length of the data file
InFile(st, k, b) ==
    /\ ~Gt64(SlotOffset(st, k, b),
             Add64(SlotOffset(st, k, b), SlotLength(st, k, b)))
    /\ ~Gt64(Add64(SlotOffset(st, k, b), SlotLength(st, k, b)), st.n)
\* the byte ranges of the entries of j and k do not meet
Apart(st, j, k, b) ==
    \/ ~Gt64(Add64(SlotOffset(st, j, b), SlotLength(st, j, b)),
             SlotOffset(st, k, b))
    \/ ~Gt64(Add64(SlotOffset(st, k, b), SlotLength(st, k, b)),
             SlotOffset(st, j, b))

\* C7: between calls the byte ranges [offset, offset + length) of the live
\* directory entries are pairwise disjoint and lie inside the data file.
C7_RangesDisjointInFile ==
    isOpen =>
        \A j \in Keys, k \in Keys :
            (Present(Cur, j, build) /\ Present(Cur, k, build)) =>
                /\ InFile(Cur, k, build)
                /\ j # k => Apart(Cur, j, k, build)

\* C8: a successful delete of a present key whose entry (offset, length)
\* lies in the data file moves the bytes behind the entry down to offset,
\* keeps the bytes before offset and cuts the file by length.
C8_DeleteStep ==
    (/\ last'.op = "delete" /\ nops' = nops + 1 /\ last'.ret = 0
     /\ last'.key \in live
     /\ Present(Cur, last'.key, build)
     /\ InFile(Cur, last'.key, build)
     /\ Len(dataf) = Kept(dlen) /\ dlen = U64(Len(dataf))) =>
        LET o == ToNat(SlotOffset(Cur, last'.key, build))
            n == ToNat(SlotLength(Cur, last'.key, build))
        IN  /\ dlen' = U64(Len(dataf) - n)
            /\ dataf' = SubSeq(dataf, 1, o)
                            \o SubSeq(dataf, o + n + 1, Len(dataf))
\* C8: every successful delete of a present key closes the hole its bytes
\* leave and cuts the data file by their number.
C8_DeleteCompacts == [][C8_DeleteStep]_vars

\* C9: a put of an absent key (one whose hash is not 0, with a value that
\* is not empty) takes the newest offset off a non-empty free
\* list, leaves the other entries, writes the value at that offset and
\* records it in the slot; with an empty free list it writes at, and
\* records, the end of the data file.
C9_PutStep ==
    (/\ last'.op = "put" /\ nops' = nops + 1
     /\ last'.key \notin live
     /\ Plain(last'.key)
     /\ Len(last'.val) > 0
     /\ StoredHash(Cur, last'.key, build) # hash_function(last'.key)) =>
        LET at == IF dba # <<>> THEN FromInt(dba[Len(dba)]) ELSE dlen
        IN  /\ dba' = IF dba # <<>> THEN SubSeq(dba, 1, Len(dba) - 1) ELSE dba
            /\ SlotOffset(Cur', last'.key, build) = at
            /\ HoldsAt(Cur', at, last'.val)
\* C9: every put of an absent key writes the value at, and records, the
\* newest offset of the free list, which it removes, or the end of the
\* data file when the free list is empty.
C9_FreeListLifo == [][C9_PutStep]_vars

\* C10, as the claim states it: a delete of a key that was put and not
\* deleted since (one whose hash is not 0), when it returns success, appends one entry to the free
\* list, and the entry is the offset the slot of the deleted record held; a
\* delete that returns not-found appends none.
C10_DeleteStepOffset ==
    (/\ last'.op = "delete" /\ nops' = nops + 1
     /\ last'.key \in live /\ Plain(last'.key)) =>
        IF last'.ret = 0
        THEN /\ Len(dba') = Len(dba) + 1
             /\ SubSeq(dba', 1, Len(dba)) = dba
             /\ FromInt(dba'[Len(dba')]) = SlotOffset(Cur, last'.key, build)
        ELSE dba' = dba
C10_DeleteStepInt ==
    (last'.op = "delete" /\ nops' = nops + 1) =>
        IF last'.ret = 0
        THEN /\ Len(dba') = Len(dba) + 1
             /\ SubSeq(dba', 1, Len(dba)) = dba
             /\ dba'[Len(dba')] = <<SlotOffset(Cur, last'.key, build)[1],
                                    SlotOffset(Cur, last'.key, build)[2]>>
             /\ (SlotOffset(Cur, last'.key, build)[3] = 0
                 /\ SlotOffset(Cur, last'.key, build)[4] = 0
                 /\ SlotOffset(Cur, last'.key, build)[2] < 32768)
                    => FromInt(dba'[Len(dba')])
                           = SlotOffset(Cur, last'.key, build)
        ELSE dba' = dba
SlotHolds(st, key) ==
    /\ Len(st.h) >= HashOff(Mod128(hash_function(key))) + 2
    /\ SubSeq(st.h, HashOff(Mod128(hash_function(key))) + 1,
              HashOff(Mod128(hash_function(key))) + 2) = hash_function(key)

\* C11: a delete(k) called when the slot of bucket(k) does not hold hash(k)
\* returns -1 and leaves the directory file, the data file and the free list
\* in memory as they were.
C11_DeleteStep ==
    (/\ last'.op = "delete" /\ nops' = nops + 1
     /\ ~SlotHolds(Cur, last'.key)) =>
        /\ last'.ret = -1
        /\ hashf' = hashf
        /\ dataf' = dataf
        /\ dlen' = dlen
        /\ dba' = dba
\* C11: every delete of a key whose slot does not hold the key's hash
\* reports not-found and changes neither file nor the free list.
C11_DeleteAbsentNoOp == [][C11_DeleteStep]_vars

\* ------------------------------------------- the calls next to the daemon
\* The calls of one thread, db_put and db_delete in two steps each and
\* db_close in five, interleaved with the thread db_open starts on
\* fsync_background.  fsync writes the pages of a descriptor to the disk: it
\* changes neither the content of a file nor a stream, so the daemon acts on
\* dpc and mutex only.

\* the keys of the callers: "-" (bucket 1) and "\x80" (hash 4736, bucket 0)
DaemonKeys == {<<45>>, <<128>>}

\* every call takes the mutex
EveryCallLocks(call) == TRUE
\* the calls that take db->fsync_mutex: db_close does, db_put, db_get and
\* db_delete hold no pthread_mutex_lock
TakesLock(call) == call = "close"

\* a join that does not wait
JoinedAtOnce(d) == TRUE
\* pthread_join(db->fsync_thread, NULL) returns once the thread has returned
Joined(d) == d = "done"

\* a loop that never ends
NeverStopped(flag) == FALSE
\* while (!db->stop_fsync_thread) leaves the loop
Stopped(flag) == flag

\* db_open of db_close(db) on a struct whose fsync_thread was never
\* assigned: pthread_join on the bytes malloc left there either returns or
\* ends the process
JoinOutcomes == {"returns", "crash"}

\* the daemon is inside its loop
Running(d) == d \in {"test", "sleep", "lock", "flush"}

\* db_open has returned a struct hdb on three fresh files and the daemon
\* thread is created
InitT ==
    /\ hashf = <<>>
    /\ dataf = <<>>
    /\ dlen = Zero64
    /\ dpos = Zero64
    /\ delf = <<>>
    /\ dba = <<>>
    /\ isOpen = TRUE
    /\ build \in Builds
    /\ nops = 0
    /\ last = [op |-> "open", key |-> NoKey, val |-> NoVal, ret |-> 0,
               prev |-> "none"]
    /\ live = {}
    /\ kv = [k \in DaemonKeys |-> NoVal]
    /\ everPut = {}
    /\ atClose = <<>>
    /\ fpc = "idle"
    /\ pend = NoCall
    /\ dpc = "test"
    /\ stop = FALSE
    /\ mutex = "free"

\* the caller may start a call
Ready == fpc = "idle" /\ nops < MaxCalls

\* db_put up to the fwrite of the hash field (lines 152-163)
PutBegin(k, v) ==
    /\ isOpen
    /\ Ready
    /\ TakesLock("put") => mutex = "free"
    /\ db_put(Cur, k, v, build).follow
    /\ \E del \in {DeleteOld(Cur, k, hash_function(k), build)} :
        /\ hashf' = WriteAt(del.st.h, HashOff(Mod128(hash_function(k))),
                            hash_function(k))
        /\ dataf' = del.st.d
        /\ dlen' = del.st.n
        /\ dpos' = del.st.p
        /\ dba' = del.st.a
    /\ fpc' = "put"
    /\ pend' = [op |-> "put", key |-> k, val |-> v]
    /\ mutex' = IF TakesLock("put") THEN "caller" ELSE mutex
    /\ UNCHANGED <<delf, isOpen, build, nops, last, live, kv, everPut,
                   atClose, dpc, stop>>

\* the rest of db_put: the value and the entry are written (lines 165-178)
PutEnd ==
    /\ fpc = "put"
    /\ \E r \in {PutValue([ret |-> 0, st |-> Cur, follow |-> TRUE],
                          hash_function(pend.key), pend.val)} :
        /\ hashf' = r.st.h
        /\ dataf' = r.st.d
        /\ dlen' = r.st.n
        /\ dpos' = r.st.p
        /\ dba' = r.st.a
        /\ last' = [op |-> "put", key |-> pend.key, val |-> pend.val,
                    ret |-> r.ret, prev |-> last.op]
    /\ nops' = nops + 1
    /\ live' = live \cup {pend.key}
    /\ kv' = [kv EXCEPT ![pend.key] = pend.val]
    /\ everPut' = everPut \cup {pend.key}
    /\ fpc' = "idle"
    /\ pend' = NoCall
    /\ mutex' = IF TakesLock("put") THEN "free" ELSE mutex
    /\ UNCHANGED <<delf, isOpen, build, atClose, dpc, stop>>

GetT(k) ==
    /\ isOpen
    /\ Ready
    /\ \E r \in {db_get(Cur, k, build, BufFill)} :
        /\ r.follow
        /\ dpos' = r.st.p
        /\ last' = [op |-> "get", key |-> k, val |-> r.val, ret |-> r.ret,
                    prev |-> last.op]
    /\ nops' = nops + 1
    /\ UNCHANGED <<hashf, dataf, dlen, delf, dba, isOpen, build, live, kv,
                   everPut, atClose, tvars>>

\* db_delete that finds another hash in the slot (lines 221-226)
DeleteMiss(k) ==
    /\ isOpen
    /\ Ready
    /\ db_delete(Cur, k, build).ret = -1
    /\ nops' = nops + 1
    /\ last' = [op |-> "delete", key |-> k, val |-> NoVal, ret |-> -1,
                prev |-> last.op]
    /\ UNCHANGED <<hashf, dataf, dlen, dpos, delf, dba, isOpen, build, live,
                   kv, everPut, atClose, tvars>>

\* db_delete up to the ftruncate: the hash field is cleared, the offset is
\* pushed and the data file is cut (lines 221-250)
DeleteBegin(k) ==
    /\ isOpen
    /\ Ready
    /\ TakesLock("delete") => mutex = "free"
    /\ \E r \in {db_delete(Cur, k, build)} :
        /\ r.ret = 0
        /\ r.follow
        /\ dataf' = r.st.d
        /\ dlen' = r.st.n
        /\ dpos' = r.st.p
        /\ dba' = r.st.a
    /\ \E h1 \in {WriteAt(hashf, HashOff(Mod128(hash_function(k))), Zero32)} :
        /\ hashf' = h1
        /\ pend' = [op |-> "delete", key |-> k,
                    position |-> ReadAt(h1, EntryOff(Mod128(hash_function(k))),
                                        4, Junk64(build)).val,
                    length |-> ReadAt(h1, EntryOff(Mod128(hash_function(k))) + 4,
                                      4, Junk64(build)).val]
    /\ fpc' = "delete"
    /\ mutex' = IF TakesLock("delete") THEN "caller" ELSE mutex
    /\ UNCHANGED <<delf, isOpen, build, nops, last, live, kv, everPut,
                   atClose, dpc, stop>>

\* the rest of db_delete: the directory rewrite (lines 253-272)
DeleteEnd ==
    /\ fpc = "delete"
    /\ hashf' = Rewrite(hashf, pend.position, pend.length, build)
    /\ nops' = nops + 1
    /\ last' = [op |-> "delete", key |-> pend.key, val |-> NoVal, ret |-> 0,
                prev |-> last.op]
    /\ live' = live \ {pend.key}
    /\ fpc' = "idle"
    /\ pend' = NoCall
    /\ mutex' = IF TakesLock("delete") THEN "free" ELSE mutex
    /\ UNCHANGED <<dataf, dlen, dpos, delf, dba, isOpen, build, kv, everPut,
                   atClose, dpc, stop>>

\* db_close: db->stop_fsync_thread = true (line 113)
CloseStop ==
    /\ isOpen
    /\ Ready
    /\ stop' = TRUE
    /\ fpc' = "join"
    /\ pend' = [op |-> "close"]
    /\ UNCHANGED <<hashf, dataf, dlen, dpos, delf, dba, isOpen, build, nops,
                   last, live, kv, everPut, atClose, dpc, mutex>>

\* pthread_join returns (line 114)
CloseJoin ==
    /\ fpc = "join"
    /\ Joined(dpc)
    /\ fpc' = "lock"
    /\ UNCHANGED <<hashf, dataf, dlen, dpos, delf, dba, isOpen, build, nops,
                   last, live, kv, everPut, atClose, pend, dpc, stop, mutex>>

\* pthread_mutex_lock(&db->fsync_mutex) (line 116)
CloseLock ==
    /\ fpc = "lock"
    /\ mutex = "free"
    /\ mutex' = "caller"
    /\ fpc' = "final"
    /\ UNCHANGED <<hashf, dataf, dlen, dpos, delf, dba, isOpen, build, nops,
                   last, live, kv, everPut, atClose, pend, dpc, stop>>

\* the free list is written out, the three files are synced and closed and
\* the array is freed (lines 117-132)
CloseFinal ==
    /\ fpc = "final"
    /\ delf' = encode_deleted_blocks_array(delf, dba)
    /\ dba' = <<>>
    /\ dpos' = Zero64
    /\ isOpen' = FALSE
    /\ fpc' = "unlock"
    /\ UNCHANGED <<hashf, dataf, dlen, build, nops, last, live, kv, everPut,
                   atClose, pend, dpc, stop, mutex>>

\* pthread_mutex_unlock, pthread_mutex_destroy, free(db) (lines 133-136)
CloseUnlock ==
    /\ fpc = "unlock"
    /\ mutex' = "free"
    /\ fpc' = "idle"
    /\ pend' = NoCall
    /\ nops' = nops + 1
    /\ last' = [op |-> "close", key |-> last.key, val |-> last.val,
                ret |-> 0, prev |-> last.op]
    /\ UNCHANGED <<hashf, dataf, dlen, dpos, delf, dba, isOpen, build, live,
                   kv, everPut, atClose, dpc, stop>>

\* db_open on the same three paths, all of which can be opened: the free
\* list is read back and a new daemon thread is created (lines 79-108)
OpenT ==
    /\ ~isOpen
    /\ Ready
    /\ dba' = decode_deleted_blocks_array(delf)
    /\ dpos' = Zero64
    /\ isOpen' = TRUE
    /\ stop' = FALSE
    /\ mutex' = "free"
    /\ dpc' = "test"
    /\ nops' = nops + 1
    /\ last' = [op |-> "open", key |-> last.key, val |-> last.val, ret |-> 0,
                prev |-> last.prev]
    /\ UNCHANGED <<hashf, dataf, dlen, delf, build, live, kv, everPut,
                   atClose, fpc, pend>>

\* db_open when one of the three paths can neither be opened nor created:
\* the new struct has no thread, and db_close(db) is called before
\* pthread_create (lines 79-100); db_close sets the stop flag (line 113)
OpenFails ==
    /\ ~isOpen
    /\ Ready
    /\ dpc' = "none"
    /\ stop' = TRUE
    /\ mutex' = "free"
    /\ fpc' = "cleanup"
    /\ pend' = [op |-> "open"]
    /\ UNCHANGED <<hashf, dataf, dlen, dpos, delf, dba, isOpen, build, nops,
                   last, live, kv, everPut, atClose>>

\* that db_close joins db->fsync_thread, which was never assigned (line
\* 114): either the join returns, db_close closes what was opened and
\* db_open returns NULL (lines 116-137, 101), or the process ends
CleanupJoin ==
    /\ fpc = "cleanup"
    /\ \E out \in JoinOutcomes :
        IF out = "returns"
        THEN /\ last' = [op |-> "open", key |-> NoKey, val |-> NoVal,
                         ret |-> -1, prev |-> "none"]
             /\ nops' = nops + 1
             /\ fpc' = "idle"
             /\ pend' = NoCall
        ELSE /\ fpc' = "crashed"
             /\ UNCHANGED <<last, nops, pend>>
    /\ UNCHANGED <<hashf, dataf, dlen, dpos, delf, dba, isOpen, build, live,
                   kv, everPut, atClose, dpc, stop, mutex>>

\* fsync_background: the test of the loop (line 67)
DaemonTest ==
    /\ dpc = "test"
    /\ fpc # "crashed"
    /\ dpc' = IF Stopped(stop) THEN "done" ELSE "sleep"
    /\ UNCHANGED <<hashf, dataf, dlen, dpos, delf, dba, isOpen, build, nops,
                   last, live, kv, everPut, atClose, fpc, pend, stop, mutex>>

\* sleep(2) returns (line 68)
DaemonWake ==
    /\ dpc = "sleep"
    /\ fpc # "crashed"
    /\ dpc' = "lock"
    /\ UNCHANGED <<hashf, dataf, dlen, dpos, delf, dba, isOpen, build, nops,
                   last, live, kv, everPut, atClose, fpc, pend, stop, mutex>>

\* pthread_mutex_lock(&db->fsync_mutex) (line 69)
DaemonLock ==
    /\ dpc = "lock"
    /\ fpc # "crashed"
    /\ mutex = "free"
    /\ mutex' = "daemon"
    /\ dpc' = "flush"
    /\ UNCHANGED <<hashf, dataf, dlen, dpos, delf, dba, isOpen, build, nops,
                   last, live, kv, everPut, atClose, fpc, pend, stop>>

\* the three fsync calls and pthread_mutex_unlock (lines 70-73)
DaemonFlush ==
    /\ dpc = "flush"
    /\ fpc # "crashed"
    /\ mutex' = "free"
    /\ dpc' = "test"
    /\ UNCHANGED <<hashf, dataf, dlen, dpos, delf, dba, isOpen, build, nops,
                   last, live, kv, everPut, atClose, fpc, pend, stop>>

Daemon == DaemonTest \/ DaemonWake \/ DaemonLock \/ DaemonFlush

Closing == CloseJoin \/ CloseLock \/ CloseFinal \/ CloseUnlock

NextT ==
    \/ \E k \in DaemonKeys, v \in Values : PutBegin(k, v)
    \/ PutEnd
    \/ \E k \in DaemonKeys : GetT(k)
    \/ \E k \in DaemonKeys : DeleteMiss(k)
    \/ \E k \in DaemonKeys : DeleteBegin(k)
    \/ DeleteEnd
    \/ CloseStop
    \/ Closing
    \/ OpenT
    \/ OpenFails
    \/ CleanupJoin
    \/ Daemon

SpecT == InitT /\ [][NextT]_vars

\* each thread that can run does run: the scheduler starves neither the
\* daemon nor a db_close in progress
SpecTFair == SpecT /\ WF_vars(Daemon) /\ WF_vars(Closing)

\* C12: whatever the daemon does between and inside the calls, when put(k, v)
\* was the last call before close and the engine is opened again on the same
\* paths, get(k) gives v with length |v|.
C12_PutSurvivesDaemon ==
    (last.op = "open" /\ last.ret = 0 /\ last.prev = "put" /\ fpc = "idle")
        => Outcome(Cur, last.key, build) = Found(last.val)

\* C13: a close that has set the stop flag runs to completion: the daemon
\* leaves its loop, the join returns, close takes the lock, releases the
\* handles and returns.
C13_CloseTerminates == (fpc = "join") ~> (fpc = "idle" /\ ~isOpen)

\* C13, reached: a close has returned after the daemon left its loop
C13_CloseDone ==
    /\ last.op = "close"
    /\ fpc = "idle"
    /\ ~isOpen
    /\ dpc = "done"
    /\ stop

\* C14: an open that finds one of the three files impossible to open or
\* create returns NULL to its caller: no engine is open afterwards and no
\* daemon is running.
C14_FailedOpenReturnsNull ==
    ((last.op = "open" /\ last.ret = -1) \/ fpc = "crashed") =>
        /\ fpc = "idle"
        /\ ~isOpen
        /\ ~Running(dpc)

\* C19: while close holds the lock, writes out the free list and closes the
\* handles the daemon has left its loop; the daemon never flushes a handle
\* close has released; the daemon's flush and the final flush of close are
\* never inside the lock together.
C19_FlushesEndBeforeClose ==
    /\ fpc \in {"lock", "final", "unlock"} => dpc = "done"
    /\ dpc = "flush" => isOpen
    /\ ~(dpc = "flush" /\ fpc \in {"final", "unlock"})

\* C19, reached: close has set the stop flag and waits in the join while the
\* daemon is inside the lock, flushing
C19_CloseWaitsForFlush ==
    /\ fpc = "join"
    /\ stop
    /\ dpc = "flush"
    /\ mutex = "daemon"

\* C20: put and delete never hold the shared lock, so a daemon that asks for
\* the lock between the steps of a put or a delete gets it.
C20_FlushNotExcluded ==
    fpc \in {"put", "delete"} =>
        /\ mutex # "caller"
        /\ dpc = "lock" => ENABLED DaemonLock

\* C20, reached: the daemon flushes while a put has written the hash field
\* of its slot and the hash file does not yet hold the slot's offset and
\* length
C20_FlushOverHalfWrittenSlot ==
    /\ fpc = "put"
    /\ dpc = "flush"
    /\ SlotHolds(Cur, pend.key)
    /\ Len(hashf) < EntryOff(Mod128(hash_function(pend.key))) + 8

\* C15: the free list a close leaves in its file is, read back the way open
\* reads it (every int the file holds), the free list that was in memory
\* when close was called: same length, same order, same entries.
C15_CloseStep ==
    (last'.op = "close" /\ nops' = nops + 1) =>
        decode_deleted_blocks_array(delf') = dba
\* C15: every close writes a file from which the following open loads the
\* free list as it was in memory, also when puts have made the list shorter
\* than it was at the open of the session.
C15_FreeListRoundTrip == [][C15_CloseStep]_vars

\* a db_get of the key meets a storage failure: the slot holds the key's
\* hash and either the seek to the recorded offset fails (the offset is
\* negative as an off_t) or the data file ends before the recorded length
\* is read (fread returns fewer bytes than asked)
StorageFails(st, key, b) ==
    /\ StoredHash(st, key, b) = hash_function(key)
    /\ \/ Neg64(SlotOffset(st, key, b))
       \/ Gt64(SlotLength(st, key, b),
               IF Gt64(st.n, SlotOffset(st, key, b))
               THEN Sub64(st.n, SlotOffset(st, key, b)) ELSE Zero64)

\* C16: a get during which a seek or a read of the data file fails returns
\* a failure indicator that is neither success (0) nor not-found (-1).
C16_GetStep ==
    (/\ last'.op = "get" /\ nops' = nops + 1
     /\ StorageFails(Cur, last'.key, build)) =>
        last'.ret \notin {0, -1}
\* C16: no get reports a failed seek or a short read of the data file as
\* success or as not-found.
C16_FailureIsReported == [][C16_GetStep]_vars

\* ------------------------------------------------- hash_function by itself
\* the bytes of the keys: NUL, '-', 'Z', 'h', 0x80
KeyBytes == {0, 45, 90, 104, 128}

\* hash_function applied to the empty key
HashInit ==
    /\ hashf = <<>>
    /\ dataf = <<>>
    /\ dlen = Zero64
    /\ dpos = Zero64
    /\ delf = <<>>
    /\ dba = <<>>
    /\ isOpen = FALSE
    /\ build \in Builds
    /\ nops = 0
    /\ last = [op |-> "hash", key |-> <<>>, val |-> NoVal,
               ret |-> hash_function(<<>>)]
    /\ live = {}
    /\ kv = <<>>
    /\ everPut = {}
    /\ atClose = <<>>
    /\ fpc = "idle"
    /\ pend = NoCall
    /\ dpc = "none"
    /\ stop = FALSE
    /\ mutex = "free"

\* hash_function applied to the key one byte longer
HashNext ==
    /\ Len(last.key) < MaxKeyLen
    /\ \E byte \in KeyBytes :
        last' = [op |-> "hash", key |-> Append(last.key, byte), val |-> NoVal,
                 ret |-> hash_function(Append(last.key, byte))]
    /\ UNCHANGED <<hashf, dataf, dlen, dpos, delf, dba, isOpen, build, nops,
                   live, kv, everPut, atClose, tvars>>

HashSpec == HashInit /\ [][HashNext]_vars

\* C17: hash_function gives a hash other than 0, the mark of an empty slot,
\* for every key that is not empty.
C17_HashNonZero ==
    (last.op = "hash" /\ Len(last.key) > 0) => last.ret # Zero32

\* the bucket of a key: hash % 128
Bucket(key) == Mod128(hash_function(key))

\* C18: a put(k, v) leaves, for every key of another bucket whose slot the
\* hash file holds, the stored hash, the offset and the length of that
\* bucket and what get gives for that key as they were before the call.
C18_PutStep ==
    (last'.op = "put" /\ nops' = nops + 1) =>
        \A k \in Keys :
            (/\ Bucket(k) # Bucket(last'.key)
             /\ Len(hashf) >= EntryOff(Bucket(k)) + 8) =>
                /\ StoredHash(Cur', k, build) = StoredHash(Cur, k, build)
                /\ SlotOffset(Cur', k, build) = SlotOffset(Cur, k, build)
                /\ SlotLength(Cur', k, build) = SlotLength(Cur, k, build)
                /\ Outcome(Cur', k, build) = Outcome(Cur, k, build)
\* C18: every put changes the directory slot of its own bucket only.
C18_PutTouchesOwnSlot == [][C18_PutStep]_vars

\* C21: a step in which db_close joins db->fsync_thread, be it in the close
\* the caller asked for or in the cleanup of a db_open that could not open a
\* file, is a join of a thread that db_open created.
C21_JoinStep ==
    (fpc \in {"join", "cleanup"} /\ fpc' # fpc) => dpc # "none"
\* C21: no pthread_join is performed on a thread that was never created.
C21_JoinsOnlyCreatedThread == [][C21_JoinStep]_vars

====
